---- MODULE Spec2Model ----
(***************************************************************************)
(* Model of postfix-macros-impl/lib.rs: the proc macro that rewrites       *)
(* RECEIVER.NAME!(ARGS) into NAME!(RECEIVER, ARGS) on token trees.         *)
(*                                                                         *)
(* Token trees (proc_macro::TokenTree) are records                         *)
(*   [k : kind, c : text / char / delimiter, sp : spacing, s : stream].    *)
(* Vec / slice indices are the 0-based indices of the Rust code; element i *)
(* of a Rust slice is element i+1 of the TLA+ sequence (operator At).      *)
(* A panic is a non-empty string in the field `panic` of a result.         *)
(***************************************************************************)
EXTENDS Naturals, Integers, Sequences, FiniteSets, TLC

VARIABLES stream, stream_iter, fed, res, pc, group, expr_len, arg_tokens, err

vars == <<stream, stream_iter, fed, res, pc, group, expr_len, arg_tokens, err>>

(***************************************************************************)
(* Token model                                                             *)
(***************************************************************************)
Ident(text) == [k |-> "Ident", c |-> text, sp |-> "", s |-> <<>>]

Literal(text) == [k |-> "Literal", c |-> text, sp |-> "", s |-> <<>>]

Punct(ch, spacing) == [k |-> "Punct", c |-> ch, sp |-> spacing, s |-> <<>>]

Group(delim, inner) == [k |-> "Group", c |-> delim, sp |-> "", s |-> inner]

\* tts[i] of the Rust code (0-based)
At(tts, i) == tts[i + 1]

\* whether tts[i] is inside the slice; Rust panics otherwise
InRange(tts, i) == i >= 0 /\ i < Len(tts)

\* results of the functions that may panic
Ok(v) == [panic |-> "", val |-> v]

Panic(msg) == [panic |-> msg, val |-> 0]

PanicStream(msg) == [panic |-> msg, val |-> <<>>]

\* the panic of line 70
EmptyReceiverMsg == "expected something before the postfix macro invocation"

(***************************************************************************)
(* expression_length: the binop partner search, the for loop of lines      *)
(* 158-218.  j is the index of the token the reversed iterator yields      *)
(* next (j < 0: the iterator is exhausted), offs is                        *)
(* offs_until_binop_partner.  The result says how the loop was left:       *)
(* "outer" (break 'outer, the operators are unary), "break" (a binop       *)
(* partner was met), "end" (the slice is exhausted) or "panic".            *)
(***************************************************************************)
RECURSIVE binop_partner_search(_, _, _)
binop_partner_search(tts, j, offs) ==
    IF j < 0 THEN [how |-> "end", offs |-> offs, panic |-> ""]
    ELSE LET tt == At(tts, j) IN
      CASE tt.k = "Group" ->
             ( CASE tt.c = "Brace" -> [how |-> "outer", offs |-> offs, panic |-> ""]
                 [] tt.c \in {"Parenthesis", "Bracket"} ->
                      [how |-> "break", offs |-> offs, panic |-> ""]
                 [] OTHER ->
                      [how |-> "panic", offs |-> offs,
                       panic |-> "We don't support groups delimitered by none yet"] )
        [] tt.k = "Ident" ->
             IF tt.c # "mut"
             THEN [how |-> "break", offs |-> offs, panic |-> ""]
             ELSE binop_partner_search(tts, j - 1, offs + 1)
        [] tt.k = "Punct" ->
             ( CASE tt.c \in {";", ",", "="} ->
                      [how |-> "outer", offs |-> offs, panic |-> ""]
                 [] tt.c \in {"&", "*", "-"} ->
                      binop_partner_search(tts, j - 1, offs + 1)
                 [] OTHER ->
                      [how |-> "panic", offs |-> offs,
                       panic |-> "Binop partner search encountered punct"] )
        [] OTHER -> \* Literal
             [how |-> "break", offs |-> offs, panic |-> ""]

(***************************************************************************)
(* Lines 228-245: how many tokens the binop operator takes up, from the    *)
(* leftmost token the search skipped (first) and the one after it (second).*)
(***************************************************************************)
AsBinopAlwaysOne(first, second) ==
    CASE first.k = "Group" -> Panic("unreachable")
      [] first.k = "Ident" -> Panic("Can't start a binop chain with ident")
      [] first.k = "Punct" -> Ok(1)
      [] OTHER -> Panic("unreachable")

binop_tts(first, second) ==
    CASE first.k = "Group" -> Panic("unreachable")
      [] first.k = "Ident" -> Panic("Can't start a binop chain with ident")
      [] first.k = "Punct" ->
           IF second.k = "Punct"
              /\ first.sp = "Joint" /\ first.c = "&" /\ second.c = "&"
           THEN Ok(2)
           ELSE Ok(1)
      [] OTHER -> Panic("unreachable")

(***************************************************************************)
(* Lines 226-249: the leftmost skipped token is the binop operator; the    *)
(* expression is what follows it.                                          *)
(***************************************************************************)
binop_exclusion(tts, len, offs) ==
    LET fi == Len(tts) - (len + 1) - offs IN
      IF fi < 0 THEN Panic("attempt to subtract with overflow")
      ELSE IF ~InRange(tts, fi) \/ ~InRange(tts, fi + 1)
      THEN Panic("index out of bounds")
      ELSE LET b == binop_tts(At(tts, fi), At(tts, fi + 1)) IN
        IF b.panic # "" THEN b
        ELSE IF 1 + offs - b.val < 0
        THEN Panic("attempt to subtract with overflow")
        ELSE Ok(len + 1 + offs - b.val)

(***************************************************************************)
(* Lines 219-249: what follows the search when it did not break 'outer.    *)
(***************************************************************************)
AsNoSoleOpCheck(tts, len, offs) == binop_exclusion(tts, len, offs)

after_search(tts, len, offs) ==
    IF offs = 0 THEN Ok(len)
    ELSE binop_exclusion(tts, len, offs)

(***************************************************************************)
(* Lines 155-250: the arm of '&' | '*' | '-' met with expr_len = len.      *)
(***************************************************************************)
RECURSIVE expression_loop(_, _, _)

AsContinueOuterScan(tts, len) ==
    IF Len(tts) - len - 1 < 0 THEN Panic("attempt to subtract with overflow")
    ELSE LET sr == binop_partner_search(tts, Len(tts) - len - 2, 0) IN
      CASE sr.how = "panic" -> Panic(sr.panic)
        [] sr.how = "outer" -> expression_loop(tts, len + 1, TRUE)
        [] OTHER -> after_search(tts, len, sr.offs)

binop_arm(tts, len) ==
    IF Len(tts) - len - 1 < 0 THEN Panic("attempt to subtract with overflow")
    ELSE LET sr == binop_partner_search(tts, Len(tts) - len - 2, 0) IN
      CASE sr.how = "panic" -> Panic(sr.panic)
        [] sr.how = "outer" -> Ok(len + sr.offs + 1)
        [] OTHER -> after_search(tts, len, sr.offs)

(***************************************************************************)
(* Lines 121-260: the 'outer while loop, entered with expr_len = len and   *)
(* last_was_punctuation = lwp.                                             *)
(***************************************************************************)
expression_loop(tts, len, lwp) ==
    IF ~(len < Len(tts)) THEN Ok(len)
    ELSE IF ~InRange(tts, Len(tts) - 1 - len) THEN Panic("index out of bounds")
    ELSE LET tt == At(tts, Len(tts) - 1 - len) IN
      CASE tt.k = "Group" -> expression_loop(tts, len + 1, TRUE)
        [] tt.k = "Ident" ->
             IF ~lwp /\ tt.c # "mut" THEN Ok(len)
             ELSE expression_loop(tts, len + 1, FALSE)
        [] tt.k = "Punct" ->
             \* the arms of the match on p.as_char(), tried in source order
             IF tt.c = "." /\ tt.sp = "Alone" THEN expression_loop(tts, len + 1, TRUE)
             ELSE IF tt.c \in {"?", "!"} THEN expression_loop(tts, len + 1, TRUE)
             ELSE IF tt.c \in {".", "&"} /\ tt.sp = "Joint" THEN Ok(len)
             ELSE IF tt.c = "&" /\ tt.sp = "Joint" THEN expression_loop(tts, len + 1, TRUE)
             ELSE IF tt.c \in {",", ";", "+", "/", "%", "=", "<", ">", "|", "^"} THEN Ok(len)
             ELSE IF tt.c \in {"&", "*", "-"} THEN binop_arm(tts, len)
             ELSE Panic("Encountered unsupported punctuation")
        [] OTHER -> \* Literal
             expression_loop(tts, len + 1, FALSE)

\* the scan with an Alone '.' taken for the end of the expression
AsDotTerminates(tts) ==
    LET full == expression_loop(tts, 0, TRUE)
        dots == { n \in 0 .. Len(tts) - 1 :
                    At(tts, Len(tts) - 1 - n) = Punct(".", "Alone") }
    IN IF dots = {} THEN full
       ELSE LET n == CHOOSE m \in dots : \A o \in dots : m <= o IN
              IF full.panic = "" /\ full.val <= n THEN full ELSE Ok(n)

\* lines 118-261
expression_length(tts) == expression_loop(tts, 0, TRUE)

(***************************************************************************)
(* prepend_macro_arg_to_group, lines 263-288                               *)
(***************************************************************************)
AsNeverWrap(tokens, gr) ==
    LET res_stream == IF gr.s # <<>>
                      THEN tokens \o <<Punct(",", "Alone")>> \o gr.s
                      ELSE tokens
    IN Group(gr.c, res_stream)

prepend_macro_arg_to_group(tokens, gr) ==
    LET expr == IF Len(tokens) = 1 /\ tokens[1].k \in {"Literal", "Ident"}
                THEN tokens[1]
                ELSE Group("Brace", tokens)
        res_stream == IF gr.s # <<>>
                      THEN <<expr, Punct(",", "Alone")>> \o gr.s
                      ELSE <<expr>>
    IN Group(gr.c, res_stream)

(***************************************************************************)
(* Lines 51-56: whether the last three tokens pushed are `. name !`.       *)
(* rchunks(3).next() is the last three elements, or fewer when res is      *)
(* shorter, and then the slice pattern does not match.                     *)
(***************************************************************************)
AsIgnoreSpacing(buf) ==
    /\ Len(buf) >= 3
    /\ LET p1 == buf[Len(buf) - 2]
           id == buf[Len(buf) - 1]
           p2 == buf[Len(buf)]
       IN /\ p1.k = "Punct" /\ id.k = "Ident" /\ p2.k = "Punct"
          /\ p1.c = "." /\ p2.c = "!"

is_postfix_macro(buf) ==
    /\ Len(buf) >= 3
    /\ LET p1 == buf[Len(buf) - 2]
           id == buf[Len(buf) - 1]
           p2 == buf[Len(buf)]
       IN /\ p1.k = "Punct" /\ id.k = "Ident" /\ p2.k = "Punct"
          /\ p1.c = "." /\ p1.sp = "Alone" /\ p2.c = "!" /\ p2.sp = "Alone"

(***************************************************************************)
(* Lines 76 and 78: the slice res[(res.len() - expr_len)..] and the        *)
(* truncate to res.len() - expr_len.                                       *)
(***************************************************************************)
AsNoTruncate(buf, len) ==
    IF Len(buf) - len < 0
    THEN [panic |-> "attempt to subtract with overflow", arg_tokens |-> <<>>, res |-> buf]
    ELSE [panic |-> "",
          arg_tokens |-> SubSeq(buf, Len(buf) - len + 1, Len(buf)),
          res |-> buf]

split_receiver(buf, len) ==
    IF Len(buf) - len < 0
    THEN [panic |-> "attempt to subtract with overflow", arg_tokens |-> <<>>, res |-> buf]
    ELSE [panic |-> "",
          arg_tokens |-> SubSeq(buf, Len(buf) - len + 1, Len(buf)),
          res |-> SubSeq(buf, 1, Len(buf) - len)]

(***************************************************************************)
(* Visitor::visit_stream and Visitor::visit_group, lines 43-108.           *)
(* visit_loop(iter, buf) is the while loop with stream_iter = iter and     *)
(* res = buf.                                                              *)
(***************************************************************************)
RECURSIVE visit_loop(_, _)

visit_stream(s) == visit_loop(s, <<>>)

visit_group(grp) ==
    LET st == visit_stream(grp.s) IN
      IF st.panic # "" THEN st
      ELSE Ok(Group(grp.c, st.val))

(***************************************************************************)
(* Lines 58-84, the postfix_macro branch, once the three tokens are popped *)
(* (popped is res without them): el is the result of expression_length     *)
(* (line 67), gr that of visit_group on the call group grp (line 75).      *)
(* The result holds the rebuilt group and what is left in res.             *)
(***************************************************************************)
AsNoEmptyCheck(popped, mac, mac_bang, el, gr, grp) ==
    LET sp == split_receiver(popped, el.val)
        none == [panic |-> "", res |-> popped, gr |-> grp, expr_len |-> 0,
                 arg_tokens |-> <<>>]
    IN IF el.panic # "" THEN [none EXCEPT !.panic = el.panic]
       ELSE IF gr.panic # "" THEN [none EXCEPT !.panic = gr.panic, !.expr_len = el.val]
       ELSE IF sp.panic # "" THEN [none EXCEPT !.panic = sp.panic, !.expr_len = el.val]
       ELSE [panic |-> "",
             res |-> sp.res \o <<mac, mac_bang>>,
             gr |-> prepend_macro_arg_to_group(sp.arg_tokens, gr.val),
             expr_len |-> el.val,
             arg_tokens |-> sp.arg_tokens]

AsFoldUnvisited(popped, mac, mac_bang, el, gr, grp) ==
    LET sp == split_receiver(popped, el.val)
        none == [panic |-> "", res |-> popped, gr |-> grp, expr_len |-> 0,
                 arg_tokens |-> <<>>]
    IN IF el.panic # "" THEN [none EXCEPT !.panic = el.panic]
       ELSE IF el.val = 0
       THEN [none EXCEPT !.panic = EmptyReceiverMsg]
       ELSE IF sp.panic # "" THEN [none EXCEPT !.panic = sp.panic, !.expr_len = el.val]
       ELSE [panic |-> "",
             res |-> sp.res \o <<mac, mac_bang>>,
             gr |-> prepend_macro_arg_to_group(sp.arg_tokens, grp),
             expr_len |-> el.val,
             arg_tokens |-> sp.arg_tokens]

rebuild_group(popped, mac, mac_bang, el, gr, grp) ==
    LET sp == split_receiver(popped, el.val)
        none == [panic |-> "", res |-> popped, gr |-> grp, expr_len |-> 0,
                 arg_tokens |-> <<>>]
    IN IF el.panic # "" THEN [none EXCEPT !.panic = el.panic]
       ELSE IF el.val = 0
       THEN [none EXCEPT !.panic = EmptyReceiverMsg]
       ELSE IF gr.panic # "" THEN [none EXCEPT !.panic = gr.panic, !.expr_len = el.val]
       ELSE IF sp.panic # "" THEN [none EXCEPT !.panic = sp.panic, !.expr_len = el.val]
       ELSE [panic |-> "",
             res |-> sp.res \o <<mac, mac_bang>>,
             gr |-> prepend_macro_arg_to_group(sp.arg_tokens, gr.val),
             expr_len |-> el.val,
             arg_tokens |-> sp.arg_tokens]

\* lines 58-84 on res = buf and the call group grp
postfix_group(buf, grp) ==
    rebuild_group(SubSeq(buf, 1, Len(buf) - 3), buf[Len(buf) - 1], buf[Len(buf)],
                  expression_length(SubSeq(buf, 1, Len(buf) - 3)),
                  visit_group(grp), grp)

\* line 89 and the next iteration: the visited group gr is pushed on buf
push_group(gr, buf, rest) ==
    IF gr.panic # "" THEN PanicStream(gr.panic)
    ELSE visit_loop(rest, Append(buf, gr.val))

\* lines 84-89 after the postfix_macro branch returned r
push_rebuilt(r, rest) ==
    IF r.panic # "" THEN PanicStream(r.panic)
    ELSE push_group(visit_group(r.gr), r.res, rest)

visit_loop(iter, buf) ==
    IF iter = <<>> THEN Ok(buf)
    ELSE IF Head(iter).k = "Group"
    THEN IF is_postfix_macro(buf)
         THEN push_rebuilt(postfix_group(buf, Head(iter)), Tail(iter))
         ELSE push_group(visit_group(Head(iter)), buf, Tail(iter))
    ELSE visit_loop(Tail(iter), Append(buf, Head(iter)))

(***************************************************************************)
(* Bounded inputs                                                          *)
(***************************************************************************)
\* how many phrases the caller's stream is made of (specification Spec)
MaxPhrases == 4

\* how many tokens the output buffer handed to the scanner holds (SpecScan)
MaxPrefix == 4

a == Ident("a")
b == Ident("b")
f == Ident("f")
g == Ident("g")
mut == Ident("mut")
one == Literal("1")
dot == Punct(".", "Alone")
dot_joint == Punct(".", "Joint")
bang == Punct("!", "Alone")
amp == Punct("&", "Alone")
amp_joint == Punct("&", "Joint")
star == Punct("*", "Alone")
comma == Punct(",", "Alone")
plus == Punct("+", "Alone")
at_sign == Punct("@", "Alone")
parens == Group("Parenthesis", <<>>)
braces == Group("Brace", <<>>)
undelimited == Group("None", <<a>>)

\* `(b.g!())`: a call group that itself holds a postfix macro call
nested_call == Group("Parenthesis", <<b, dot, g, bang, parens>>)

\* The stream the macro is called with is a concatenation of phrases: single
\* tokens, the head `.f!` of a postfix macro call (also with a Joint dot,
\* which is no postfix macro call), and the whole call `.g!()`.
Phrases ==
    { <<a>>, <<mut>>, <<one>>, <<dot>>, <<amp>>, <<amp_joint>>,
      <<comma>>, <<parens>>, <<braces>>, <<undelimited>>, <<nested_call>>,
      <<dot, f, bang>>, <<dot_joint, f, bang>>, <<dot, g, bang, parens>> }

\* One token of every class the scanner tells apart.
ScanTokens ==
    { a, mut, one, dot, dot_joint, bang, plus, comma, amp, amp_joint, star,
      at_sign, parens, braces, undelimited }

NoGroup == [k |-> "", c |-> "", sp |-> "", s |-> <<>>]

(***************************************************************************)
(* Specification Spec: postfix_macros (lines 32-38) run on a stream, one   *)
(* iteration of visit_stream's loop per step.  The loop only ever takes    *)
(* the next token of the stream (stream_iter.next()), so the stream is     *)
(* chosen phrase by phrase as the loop asks for it; `stream` is the stream *)
(* read so far and stream_iter the phrase being read.                      *)
(***************************************************************************)
Init ==
    /\ stream = <<>>
    /\ stream_iter = <<>>
    /\ fed = 0
    /\ res = <<>>
    /\ pc = "loop"
    /\ group = NoGroup
    /\ expr_len = 0
    /\ arg_tokens = <<>>
    /\ err = ""

Feed(phrase) ==
    /\ pc = "loop"
    /\ stream_iter = <<>>
    /\ fed < MaxPhrases
    /\ stream' = stream \o phrase
    /\ stream_iter' = phrase
    /\ fed' = fed + 1
    /\ UNCHANGED <<res, pc, group, expr_len, arg_tokens, err>>

\* lines 91-93
VisitIdent ==
    /\ pc = "loop"
    /\ stream_iter # <<>>
    /\ Head(stream_iter).k = "Ident"
    /\ res' = Append(res, Head(stream_iter))
    /\ stream_iter' = Tail(stream_iter)
    /\ UNCHANGED <<stream, fed, pc, group, expr_len, arg_tokens, err>>

\* lines 94-96
VisitPunct ==
    /\ pc = "loop"
    /\ stream_iter # <<>>
    /\ Head(stream_iter).k = "Punct"
    /\ res' = Append(res, Head(stream_iter))
    /\ stream_iter' = Tail(stream_iter)
    /\ UNCHANGED <<stream, fed, pc, group, expr_len, arg_tokens, err>>

\* lines 97-99
VisitLiteral ==
    /\ pc = "loop"
    /\ stream_iter # <<>>
    /\ Head(stream_iter).k = "Literal"
    /\ res' = Append(res, Head(stream_iter))
    /\ stream_iter' = Tail(stream_iter)
    /\ UNCHANGED <<stream, fed, pc, group, expr_len, arg_tokens, err>>

\* lines 48-57 and 85-89: a group that is not the call group of a postfix macro
VisitGroup ==
    /\ pc = "loop"
    /\ stream_iter # <<>>
    /\ Head(stream_iter).k = "Group"
    /\ ~is_postfix_macro(res)
    /\ \E gr \in {visit_group(Head(stream_iter))} :
         IF gr.panic # ""
         THEN /\ pc' = "panic"
              /\ err' = gr.panic
              /\ UNCHANGED res
         ELSE /\ res' = Append(res, gr.val)
              /\ UNCHANGED <<pc, err>>
    /\ stream_iter' = Tail(stream_iter)
    /\ UNCHANGED <<stream, fed, group, expr_len, arg_tokens>>

\* lines 48-84: the call group of a postfix macro, up to the rebuilt group
VisitPostfixGroup ==
    /\ pc = "loop"
    /\ stream_iter # <<>>
    /\ Head(stream_iter).k = "Group"
    /\ is_postfix_macro(res)
    /\ \E r \in {postfix_group(res, Head(stream_iter))} :
         /\ res' = r.res
         /\ expr_len' = r.expr_len
         /\ arg_tokens' = r.arg_tokens
         /\ err' = r.panic
         /\ IF r.panic # ""
            THEN pc' = "panic" /\ UNCHANGED group
            ELSE pc' = "revisit" /\ group' = r.gr
    /\ stream_iter' = Tail(stream_iter)
    /\ UNCHANGED <<stream, fed>>

\* lines 88-89 after the postfix_macro branch: the rebuilt group is visited
\* (again) and pushed
PushGroup ==
    /\ pc = "revisit"
    /\ \E gr \in {visit_group(group)} :
         IF gr.panic # ""
         THEN /\ pc' = "panic"
              /\ err' = gr.panic
              /\ UNCHANGED res
         ELSE /\ res' = Append(res, gr.val)
              /\ pc' = "loop"
              /\ UNCHANGED err
    /\ UNCHANGED <<stream, stream_iter, fed, group, expr_len, arg_tokens>>

\* line 102 (and 35-37): the stream is exhausted, res is the result
Return ==
    /\ pc = "loop"
    /\ stream_iter = <<>>
    /\ pc' = "done"
    /\ UNCHANGED <<stream, stream_iter, fed, res, group, expr_len, arg_tokens, err>>

Next ==
    \/ \E phrase \in Phrases : Feed(phrase)
    \/ VisitIdent
    \/ VisitPunct
    \/ VisitLiteral
    \/ VisitGroup
    \/ VisitPostfixGroup
    \/ PushGroup
    \/ Return

Spec == Init /\ [][Next]_vars

(***************************************************************************)
(* Specification SpecScan: lines 67-78 on every output buffer.  The buffer *)
(* res is filled with any tokens (`stream` keeps them), expression_length  *)
(* is called on it, and its result is used as the walker uses it: the      *)
(* empty-receiver panic, or the slice of the receiver and the truncate.    *)
(***************************************************************************)
InitScan ==
    /\ stream = <<>>
    /\ stream_iter = <<>>
    /\ fed = 0
    /\ res = <<>>
    /\ pc = "tokens"
    /\ group = NoGroup
    /\ expr_len = 0
    /\ arg_tokens = <<>>
    /\ err = ""

PushToken(tt) ==
    /\ pc = "tokens"
    /\ Len(res) < MaxPrefix
    /\ res' = Append(res, tt)
    /\ stream' = Append(stream, tt)
    /\ UNCHANGED <<stream_iter, fed, pc, group, expr_len, arg_tokens, err>>

\* line 67
Scan ==
    /\ pc = "tokens"
    /\ LET el == expression_length(res) IN
         /\ expr_len' = el.val
         /\ err' = el.panic
         /\ pc' = IF el.panic # "" THEN "panic" ELSE "scanned"
    /\ UNCHANGED <<stream, stream_iter, fed, res, group, arg_tokens>>

\* lines 69-71
EmptyReceiver ==
    /\ pc = "scanned"
    /\ expr_len = 0
    /\ pc' = "panic"
    /\ err' = EmptyReceiverMsg
    /\ UNCHANGED <<stream, stream_iter, fed, res, group, expr_len, arg_tokens>>

\* lines 76 and 78
Split ==
    /\ pc = "scanned"
    /\ expr_len # 0
    /\ LET sp == split_receiver(res, expr_len) IN
         /\ arg_tokens' = sp.arg_tokens
         /\ res' = sp.res
         /\ err' = sp.panic
         /\ pc' = IF sp.panic # "" THEN "panic" ELSE "split"
    /\ UNCHANGED <<stream, stream_iter, fed, group, expr_len>>

NextScan ==
    \/ \E tt \in ScanTokens : PushToken(tt)
    \/ Scan
    \/ EmptyReceiver
    \/ Split

SpecScan == InitScan /\ [][NextScan]_vars

(***************************************************************************)
(* Vocabulary of the properties                                            *)
(***************************************************************************)
\* the four documented fatal conditions (two messages for unsupported punctuation)
DocumentedPanics ==
    { EmptyReceiverMsg,
      "Encountered unsupported punctuation",
      "Binop partner search encountered punct",
      "We don't support groups delimitered by none yet",
      "Can't start a binop chain with ident" }

\* s[i] is a trigger site: a Group preceded by Alone '.', an Identifier, Alone '!'
IsTrigger(s, i) ==
    /\ i >= 4 /\ i <= Len(s)
    /\ s[i].k = "Group"
    /\ s[i - 3] = Punct(".", "Alone")
    /\ s[i - 2].k = "Ident"
    /\ s[i - 1] = Punct("!", "Alone")

\* the trigger sites of s at all nesting depths
RECURSIVE TriggerSites(_)
TriggerSites(s) ==
    IF s = <<>> THEN 0
    ELSE LET n == Len(s) IN
           TriggerSites(SubSeq(s, 1, n - 1))
           + (IF IsTrigger(s, n) THEN 1 ELSE 0)
           + (IF s[n].k = "Group" THEN TriggerSites(s[n].s) ELSE 0)

\* those of them whose call group is not empty
RECURSIVE NonEmptyCalls(_)
NonEmptyCalls(s) ==
    IF s = <<>> THEN 0
    ELSE LET n == Len(s) IN
           NonEmptyCalls(SubSeq(s, 1, n - 1))
           + (IF IsTrigger(s, n) /\ s[n].s # <<>> THEN 1 ELSE 0)
           + (IF s[n].k = "Group" THEN NonEmptyCalls(s[n].s) ELSE 0)

\* the tokens of s at all nesting depths, a group counted as its delimiter
RECURSIVE Leaves(_)
Leaves(s) ==
    IF s = <<>> THEN <<>>
    ELSE LET h == Head(s) IN
           (IF h.k = "Group" THEN <<Group(h.c, <<>>)>> \o Leaves(h.s) ELSE <<h>>)
           \o Leaves(Tail(s))

Occurrences(leaves, tt) == Cardinality({ i \in 1 .. Len(leaves) : leaves[i] = tt })

LeafKinds(leaves) == { leaves[i] : i \in 1 .. Len(leaves) }

\* the part of the stream the loop has taken
Consumed == SubSeq(stream, 1, Len(stream) - Len(stream_iter))

IsOperator(tt) == tt.k = "Punct" /\ tt.c \in {"&", "*", "-"}

\* what the binop partner search passes over
IsSkipped(tt) == IsOperator(tt) \/ tt = Ident("mut")

\* what the binop partner search takes for the other operand
IsPartner(tt) ==
    \/ tt.k = "Ident" /\ tt.c # "mut"
    \/ tt.k = "Literal"
    \/ tt.k = "Group" /\ tt.c \in {"Parenthesis", "Bracket"}

\* tts[j] is the operator the outer scan hands to the binop partner search:
\* the tokens after it are scanned one by one to the last and hold no operator
MetOperator(tts, j) ==
    /\ j \in 1 .. Len(tts)
    /\ IsOperator(tts[j])
    /\ ~(tts[j].c = "&" /\ tts[j].sp = "Joint")
    /\ LET operand == SubSeq(tts, j + 1, Len(tts)) IN
         /\ \A m \in 1 .. Len(operand) : ~IsOperator(operand[m])
         /\ expression_length(operand) = Ok(Len(operand))

Chain == <<a, dot, f, bang, parens, dot, g, bang, parens>>

Nested == <<a, dot, f, bang, nested_call>>

(***************************************************************************)
(* Properties                                                              *)
(***************************************************************************)

\* C1: a stream without a trigger site at any depth is returned structurally
\* identical (same tokens, order, delimiters, nesting), and never panics.
C1_NoTriggerIdentity ==
    TriggerSites(stream) = 0 =>
        /\ pc \notin {"panic", "revisit"}
        /\ pc = "loop" => res \o stream_iter = stream
        /\ pc = "done" => res = stream

C1_Witness ==
    /\ pc = "done"
    /\ stream = <<a, dot_joint, f, bang, undelimited>>
    /\ res = stream

\* C2 as stated: the output holds every input token, plus exactly one comma
\* per trigger and at most one Brace wrapper per trigger, and nothing else.
C2_AsClaimed ==
    pc = "done" =>
        LET li == Leaves(stream)
            lo == Leaves(res)
            t == TriggerSites(stream)
        IN \A tt \in LeafKinds(li) \cup LeafKinds(lo) \cup {comma, braces} :
             CASE tt = comma -> Occurrences(lo, tt) = Occurrences(li, tt) + t
               [] tt = braces ->
                    /\ Occurrences(lo, tt) >= Occurrences(li, tt)
                    /\ Occurrences(lo, tt) <= Occurrences(li, tt) + t
               [] OTHER -> Occurrences(lo, tt) = Occurrences(li, tt)

\* C2 amended: per trigger the Alone '.' is discarded, one comma is inserted
\* iff the call group is not empty, at most one Brace wrapper is inserted;
\* every other token is kept exactly.
C2_TokenAccounting ==
    pc = "done" =>
        LET li == Leaves(stream)
            lo == Leaves(res)
            t == TriggerSites(stream)
            ne == NonEmptyCalls(stream)
        IN \A tt \in LeafKinds(li) \cup LeafKinds(lo) \cup {dot, comma, braces} :
             CASE tt = dot -> Occurrences(lo, tt) + t = Occurrences(li, tt)
               [] tt = comma -> Occurrences(lo, tt) = Occurrences(li, tt) + ne
               [] tt = braces ->
                    /\ Occurrences(lo, tt) >= Occurrences(li, tt)
                    /\ Occurrences(lo, tt) <= Occurrences(li, tt) + t
               [] OTHER -> Occurrences(lo, tt) = Occurrences(li, tt)

C2_Witness ==
    /\ pc = "done"
    /\ TriggerSites(stream) = 2
    /\ NonEmptyCalls(stream) = 1
    /\ Occurrences(Leaves(res), braces) > Occurrences(Leaves(stream), braces)

\* C3 as stated: an operator '&', '*' or '-' whose binop partner search
\* reaches the start of the prefix (only operators and `mut` before it) is
\* unary and belongs to the receiver; `* a` gives 2 and `a * a` gives 1.
C3_AsClaimed ==
    pc = "scanned" =>
        /\ \A j \in 1 .. Len(stream) - 1 :
             ( /\ MetOperator(stream, j)
               /\ \A i \in 1 .. j - 1 : IsSkipped(stream[i]) )
             => expr_len >= Len(stream) - j + 1
        /\ stream = <<star, a>> => expr_len = 2
        /\ stream = <<a, star, a>> => expr_len = 1

\* C4 as stated: `a.f!().g!()` rewrites to `g!(f!(a))`.
C4_AsClaimed ==
    (pc = "done" /\ stream = Chain) =>
        res = <<g, bang, Group("Parenthesis",
                           <<f, bang, Group("Parenthesis", <<a>>)>>)>>

\* C4 amended: the tokens `name ! Group` a rewrite leaves at the end of the
\* output buffer are the end of the receiver of an immediately following
\* trigger, and that receiver is wrapped in braces: `a.f!().g!()` rewrites
\* to `g!({f!(a)})`.
C4_ChainedTriggers ==
    /\ (pc = "done" /\ stream = Chain) =>
          res = <<g, bang,
                  Group("Parenthesis",
                        <<Group("Brace", <<f, bang, Group("Parenthesis", <<a>>)>>)>>)>>
    /\ LET c == Consumed
           n == Len(c)
           l == Len(arg_tokens)
       IN (pc = "revisit" /\ IsTrigger(c, n) /\ IsTrigger(c, n - 4)) =>
            /\ l >= 3
            /\ arg_tokens[l - 2] = c[n - 6]
            /\ arg_tokens[l - 1] = bang
            /\ arg_tokens[l].k = "Group"
            /\ arg_tokens[l].c = c[n - 4].c
            /\ group.s[1] = Group("Brace", arg_tokens)

C4_Witness ==
    /\ pc = "done"
    /\ stream = Chain
    /\ Len(res) = 3

\* C5: the call group's own trigger sites are rewritten before the group is
\* folded into the call: the rebuilt group is the receiver argument, then (if
\* there are arguments) a comma and the already rewritten arguments;
\* `a.f!(b.g!())` rewrites to `f!(a, g!(b))`.
C5_InnermostFirst ==
    /\ (pc = "done" /\ stream = Nested) =>
          res = <<f, bang,
                  Group("Parenthesis",
                        <<a, comma, g, bang, Group("Parenthesis", <<b>>)>>)>>
    /\ pc = "revisit" =>
          LET call == Consumed[Len(Consumed)]
              inner == visit_stream(call.s)
              recv == IF Len(arg_tokens) = 1 /\ arg_tokens[1].k \in {"Ident", "Literal"}
                      THEN arg_tokens[1]
                      ELSE Group("Brace", arg_tokens)
          IN /\ inner.panic = ""
             /\ TriggerSites(inner.val) = 0
             /\ group = Group(call.c,
                              IF inner.val = <<>> THEN <<recv>>
                              ELSE <<recv, comma>> \o inner.val)

C5_Witness ==
    /\ pc = "done"
    /\ stream = Nested
    /\ TriggerSites(stream) = 2

\* C6: when the operator is resolved as binary against a partner and the
\* leftmost operator token is a Joint '&' followed by another '&', both are
\* left out of the receiver and every token after them is in it; `a && b`
\* gives 1.
C6_BinaryAndAnd ==
    /\ (pc = "scanned" /\ stream = <<a, amp_joint, amp, a>>) => expr_len = 1
    /\ \A i \in 2 .. Len(stream) - 1 : \A j \in i + 1 .. Len(stream) :
         ( /\ IsPartner(stream[i - 1])
           /\ stream[i] = amp_joint
           /\ stream[i + 1].k = "Punct" /\ stream[i + 1].c = "&"
           /\ MetOperator(stream, j)
           /\ \A m \in i + 1 .. j - 1 : IsSkipped(stream[m]) )
         => /\ pc = "scanned" => expr_len = Len(stream) - (i + 1)
            /\ pc = "panic" => err = EmptyReceiverMsg

C6_Witness ==
    /\ pc = "scanned"
    /\ stream = <<a, amp_joint, amp, a>>
    /\ expr_len = 1

\* C7: a trigger whose scan returns 0 makes the rewrite panic, a panic ends
\* the rewrite, and a rebuilt call always has a non-empty receiver as its
\* first argument.
C7_EmptyReceiverFatal ==
    [][ /\ pc # "panic"
        /\ ( /\ pc = "loop"
             /\ stream_iter # <<>>
             /\ Head(stream_iter).k = "Group"
             /\ is_postfix_macro(res)
             /\ expression_length(SubSeq(res, 1, Len(res) - 3)).val = 0 )
           => (pc' = "panic" /\ err' # "")
        /\ pc' = "revisit" =>
             /\ expr_len' >= 1
             /\ Len(arg_tokens') = expr_len'
             /\ group'.s # <<>>
             /\ group'.s[1] \in {arg_tokens'[1], Group("Brace", arg_tokens')}
      ]_vars

C7_Witness ==
    /\ pc = "panic"
    /\ err = EmptyReceiverMsg
    /\ res = <<a, comma>>

\* C8 as stated: with a Brace group behind the operators, the operator is
\* absorbed and the outer scan continues from the token before it.
C8_AsClaimed ==
    pc = "scanned" =>
        \A i \in 1 .. Len(stream) : \A j \in i + 1 .. Len(stream) :
          ( /\ stream[i].k = "Group" /\ stream[i].c = "Brace"
            /\ MetOperator(stream, j)
            /\ \A m \in i + 1 .. j - 1 : IsSkipped(stream[m]) )
          => Ok(expr_len) = expression_loop(stream, Len(stream) - j + 1, TRUE)

\* C8 amended: with a Brace group behind the operators, the operator and
\* every operator between it and the Brace group are absorbed and the scan
\* stops: the receiver starts right after the Brace group.
C8_BraceStopsScan ==
    pc = "scanned" =>
        \A i \in 1 .. Len(stream) : \A j \in i + 1 .. Len(stream) :
          ( /\ stream[i].k = "Group" /\ stream[i].c = "Brace"
            /\ MetOperator(stream, j)
            /\ \A m \in i + 1 .. j - 1 : IsSkipped(stream[m]) )
          => expr_len = Len(stream) - i

C8_Witness ==
    /\ pc = "scanned"
    /\ stream = <<a, braces, star, a>>
    /\ expr_len = 2

\* C9: the output buffer never holds a trigger site, the second visit of a
\* rebuilt group returns it unchanged, and rewriting the result again
\* returns it unchanged.
C9_OutputIdempotent ==
    /\ TriggerSites(res) = 0
    /\ pc = "revisit" => visit_group(group) = Ok(group)
    /\ pc = "done" => /\ visit_stream(stream) = Ok(res)
                      /\ visit_stream(res) = Ok(res)

C9_Witness ==
    /\ pc = "done"
    /\ TriggerSites(stream) = 3
    /\ Len(res) = 3
    /\ res[3].k = "Group"
    /\ res[3].s[1] = Group("Brace", <<g, bang, Group("Parenthesis", <<a>>)>>)
    /\ visit_stream(res) = Ok(res)

\* C10: expression_length never indexes outside the slice, never reaches
\* unreachable!(), never underflows, returns at most the length of the
\* prefix, so the slice and the truncate are in range; the only panics are
\* the documented ones.
C10_NoUndocumentedFault ==
    /\ err \in DocumentedPanics \cup {""}
    /\ pc = "panic" <=> err # ""
    /\ pc = "scanned" => expr_len \in 0 .. Len(res)
    /\ pc = "split" => /\ expr_len \in 1 .. Len(stream)
                       /\ Len(arg_tokens) = expr_len
                       /\ res \o arg_tokens = stream

C10_Witness ==
    /\ pc = "split"
    /\ res = <<amp_joint, amp>>
    /\ arg_tokens = <<star, a>>

====
